---- MODULE Spec2Model ----
(***************************************************************************)
(* State-machine model of SDL2_Core::Sdl (include/SDL2_core.hpp): the      *)
(* facade that owns the SDL2/TTF subsystem (Base), a window, a renderer    *)
(* and a map of textures keyed by file path or text.                       *)
(*                                                                         *)
(* Every public member function is one action.  A member function is a     *)
(* pure operator from the object's state, the arguments and the outcomes   *)
(* of the library calls it makes (env) to a result record                  *)
(*   [map, trace, msgs, err, ret]                                          *)
(* where trace is the sequence of library calls (and map insertions) the   *)
(* function performs, in program order, msgs the DBGMSG texts it emits,    *)
(* err the what() of the std::runtime_error it throws ("" when it returns  *)
(* normally) and ret its return value.  The state of the SDL library       *)
(* (live textures, open surfaces and fonts, draw colour, render target,    *)
(* init/quit counts) is obtained by replaying the trace.                   *)
(*                                                                         *)
(* Four specifications use the object in four ways: SpecLoad (loads of     *)
(* bitmaps, batches and texts), SpecDraw (bitmaps and every drawing        *)
(* function), SpecText (texts drawn into the rectangle load_text returns)  *)
(* and SpecTest (the operations of test.cpp with the test's arguments).    *)
(* Spec is their union.                                                    *)
(***************************************************************************)
EXTENDS Integers, Sequences, FiniteSets, TLC

VARIABLES
    phase,          \* life cycle of the Sdl object
    base,           \* member Base base:  "none" | "alive" | "destroyed"
    win,            \* member Window win: "none" | "alive" | "destroyed"
    ren,            \* member Renderer ren
    textures_map,   \* member std::map<std::string, Texture> textures_map
    dbg_msg,        \* thread_local std::string dbg_msg (TEST build)
    lib,            \* state of the SDL2 / SDL_ttf libraries
    succeeded,      \* history: the paths p for which load_texture(p) returned
    last            \* the last member function executed, with its trace

vars == <<phase, base, win, ren, textures_map, dbg_msg, lib, succeeded, last>>

(***************************************************************************)
(* Bounds and input sets.                                                  *)
(***************************************************************************)
MaxBatch == 3

\* The paths given to load_texture and the texts given to load_text.  Both
\* are std::string keys of textures_map: "face.bmp" is used as either.
Paths == {"face.bmp", "face2.bmp"}

Texts == {"some text", "face.bmp"}

Strings == Paths \cup Texts

Colors ==
    { [r |-> 255, g |-> 0, b |-> 0, a |-> 255],
      [r |-> 100, g |-> 0, b |-> 0, a |-> 255] }

\* The render target is a grid of WinSize.w x WinSize.h pixels.
WinSize == [w |-> 3, h |-> 1]

Pixels == {<<x, y>> : x \in 0 .. WinSize.w - 1, y \in 0 .. WinSize.h - 1}

Rects == { [x |-> 1, y |-> 0, w |-> 1, h |-> 1] }

\* std::optional<T>: <<>> is std::nullopt, <<v>> holds v.
Optional(S) == {<<>>} \cup {<<v>> : v \in S}

\* The (col, pos, path_to_font, ptsize) arguments given to load_text: each
\* argument takes two values.
TextStyles ==
    { [col |-> [r |-> 100, g |-> 100, b |-> 100, a |-> 255],
       pos |-> [x |-> 0, y |-> 0], path_to_font |-> "Mononoki.ttf", ptsize |-> 99],
      [col |-> [r |-> 255, g |-> 0, b |-> 0, a |-> 255],
       pos |-> [x |-> 1, y |-> 0], path_to_font |-> "Mononoki.ttf", ptsize |-> 99],
      [col |-> [r |-> 100, g |-> 100, b |-> 100, a |-> 255],
       pos |-> [x |-> 0, y |-> 0], path_to_font |-> "Other.ttf", ptsize |-> 12] }

\* The arguments the test gives to load_text.
TestStyles ==
    { [col |-> [r |-> 100, g |-> 100, b |-> 100, a |-> 255],
       pos |-> [x |-> 0, y |-> 0], path_to_font |-> "Mononoki.ttf", ptsize |-> 99] }

\* The (srcrect, angle, flip) members given to a texture draw.
Transforms ==
    { [srcrect |-> <<>>, angle |-> 0, flip |-> "SDL_FLIP_NONE"],
      [srcrect |-> <<[x |-> 0, y |-> 0, w |-> 1, h |-> 1]>>, angle |-> 90,
       flip |-> "SDL_FLIP_HORIZONTAL"] }

(***************************************************************************)
(* Sequence helpers.                                                       *)
(***************************************************************************)
Range(s) == {s[i] : i \in 1 .. Len(s)}

Seqs(S, n) == UNION {[1 .. k -> S] : k \in 0 .. n}

\* Positions of the calls of fn in a trace.
Pos(trace, fn) == {i \in 1 .. Len(trace) : trace[i].fn = fn}

(***************************************************************************)
(* Results of (parts of) member functions, and the SDL library.            *)
(***************************************************************************)
NoColor == [r |-> -1, g |-> -1, b |-> -1, a |-> -1]

\* One library call: its name, whether it succeeded, the texture it created,
\* destroyed or copied (0 for none) and its other arguments.
Ev(fn, ok, tex, arg) == [fn |-> fn, ok |-> ok, tex |-> tex, arg |-> arg]

\* What a piece of code did: the calls it made, the debug messages it
\* emitted and the message of the exception it threw ("" for none).
R(trace, msgs, err) == [trace |-> trace, msgs |-> msgs, err |-> err]

\* b runs after a (a did not throw).
Then(a, b) == R(a.trace \o b.trace, a.msgs \o b.msgs, b.err)

\* A channel that keeps the first message of an operation.
DBGMSG_first(old, msgs) == IF msgs = <<>> THEN old ELSE msgs[1]

\* DBGMSG(msg) in a TEST build: dbg_msg = (msg).
DBGMSG(old, msgs) == IF msgs = <<>> THEN old ELSE msgs[Len(msgs)]

Blank == [tag |-> "blank", col |-> NoColor, tex |-> 0]

Painted(col) == [tag |-> "color", col |-> col, tex |-> 0]

Copied(tex) == [tag |-> "texture", col |-> NoColor, tex |-> tex]

\* The rectangle of the whole render target.
Whole == [x |-> 0, y |-> 0, w |-> WinSize.w, h |-> WinSize.h]

\* The rectangle SDL_RenderCopyEx copies to: dstrect (NULL: the whole
\* target) rotated by angle degrees around its centre.  The angles used
\* are multiples of 90; a quarter turn swaps width and height.
Rotated(optrect, angle) ==
    LET r == IF optrect = <<>> THEN Whole ELSE optrect[1] IN
    IF angle % 180 = 0 THEN <<r>>
    ELSE <<[x |-> r.x + (r.w - r.h) \div 2, y |-> r.y + (r.h - r.w) \div 2,
            w |-> r.h, h |-> r.w]>>

\* const SDL_Rect*: NULL (<<>>) means the whole target.
Covered(optrect) ==
    IF optrect = <<>> THEN Pixels
    ELSE {p \in Pixels :
            /\ optrect[1].x <= p[1] /\ p[1] < optrect[1].x + optrect[1].w
            /\ optrect[1].y <= p[2] /\ p[2] < optrect[1].y + optrect[1].h}

LibInit ==
    [ sdl_init |-> 0, sdl_quit |-> 0, ttf_init |-> 0, ttf_quit |-> 0,
      window |-> FALSE, renderer |-> FALSE,
      textures |-> <<>>,      \* live SDL_Texture objects: id -> content
      surfaces |-> 0,         \* SDL_Surface objects not yet freed
      fonts |-> 0,            \* TTF_Font objects not yet closed
      draw_color |-> NoColor,
      target |-> [p \in Pixels |-> Blank] ]

\* The address of a new SDL_Texture: an address not in use (addresses of
\* destroyed textures are reused).  The allocator is deterministic: it
\* prefers the address Slot(surface.src).
Slot(key) ==
    CASE key = "face.bmp" -> 1 [] key = "face2.bmp" -> 2 [] OTHER -> 3

NewTexture(l, surface) ==
    IF Slot(surface.src) \notin DOMAIN l.textures THEN Slot(surface.src)
    ELSE CHOOSE id \in 4 .. 4 + Cardinality(DOMAIN l.textures) :
            id \notin DOMAIN l.textures

Remove(f, k) == [x \in DOMAIN f \ {k} |-> f[x]]

\* The effect of one library call on the library's state.
ApplyEv(l, e) ==
    CASE e.fn = "SDL_Init" ->
            IF e.ok THEN [l EXCEPT !.sdl_init = @ + 1] ELSE l
      [] e.fn = "TTF_Init" ->
            IF e.ok THEN [l EXCEPT !.ttf_init = @ + 1] ELSE l
      [] e.fn = "SDL_Quit" -> [l EXCEPT !.sdl_quit = @ + 1]
      [] e.fn = "TTF_Quit" -> [l EXCEPT !.ttf_quit = @ + 1]
      [] e.fn = "SDL_CreateWindow" ->
            IF e.ok THEN [l EXCEPT !.window = TRUE] ELSE l
      [] e.fn = "SDL_DestroyWindow" -> [l EXCEPT !.window = FALSE]
      [] e.fn = "SDL_CreateRenderer" ->
            IF e.ok THEN [l EXCEPT !.renderer = TRUE, !.draw_color = e.arg]
            ELSE l
      [] e.fn = "SDL_DestroyRenderer" -> [l EXCEPT !.renderer = FALSE]
      [] e.fn \in {"SDL_LoadBMP", "TTF_RenderText_Blended"} ->
            IF e.ok THEN [l EXCEPT !.surfaces = @ + 1] ELSE l
      [] e.fn = "SDL_FreeSurface" -> [l EXCEPT !.surfaces = @ - 1]
      [] e.fn = "TTF_OpenFont" ->
            IF e.ok THEN [l EXCEPT !.fonts = @ + 1] ELSE l
      [] e.fn = "TTF_CloseFont" -> [l EXCEPT !.fonts = @ - 1]
      [] e.fn = "SDL_CreateTextureFromSurface" ->
            IF e.ok THEN [l EXCEPT !.textures = (e.tex :> e.arg) @@ @] ELSE l
      [] e.fn = "SDL_DestroyTexture" ->
            [l EXCEPT !.textures = Remove(@, e.tex)]
      [] e.fn = "SDL_SetRenderDrawColor" ->
            IF e.ok THEN [l EXCEPT !.draw_color = e.arg] ELSE l
      [] e.fn = "SDL_RenderClear" ->
            IF e.ok
            THEN [l EXCEPT !.target = [p \in Pixels |-> Painted(l.draw_color)]]
            ELSE l
      [] e.fn = "SDL_RenderFillRect" ->
            IF e.ok
            THEN [l EXCEPT !.target =
                    [p \in Pixels |->
                        IF p \in Covered(e.arg) THEN Painted(l.draw_color)
                        ELSE @[p]]]
            ELSE l
      [] e.fn = "SDL_RenderCopyEx" ->
            IF e.ok
            THEN [l EXCEPT !.target =
                    [p \in Pixels |->
                        IF p \in Covered(Rotated(e.arg.dstrect, e.arg.angle))
                        THEN Copied(e.tex)
                        ELSE @[p]]]
            ELSE l
      [] OTHER -> l

RECURSIVE Replay(_, _)
Replay(l, trace) ==
    IF trace = <<>> THEN l
    ELSE Replay(ApplyEv(l, Head(trace)), Tail(trace))

(***************************************************************************)
(* Construction and destruction.                                           *)
(***************************************************************************)
CtorOutcomes == {"ok", "sdl_fail", "ttf_fail", "win_fail", "ren_fail"}

\* Base::Base(Uint32 flags)
Base_ctor(env) ==
    IF env = "sdl_fail"
    THEN R(<<Ev("SDL_Init", FALSE, 0, <<>>)>>, <<>>, "Failed to initialize SDL2.")
    ELSE IF env = "ttf_fail"
    THEN R(<<Ev("SDL_Init", TRUE, 0, <<>>), Ev("TTF_Init", FALSE, 0, <<>>)>>,
           <<>>, "Failed to initialize TTF.")
    ELSE R(<<Ev("SDL_Init", TRUE, 0, <<>>), Ev("TTF_Init", TRUE, 0, <<>>)>>,
           <<"SDL2 and TTF initialized.">>, "")

\* Base::~Base()
Base_dtor ==
    R(<<Ev("TTF_Quit", TRUE, 0, <<>>), Ev("SDL_Quit", TRUE, 0, <<>>)>>,
      <<"SDL2 and TTF terminated.">>, "")

\* The initializer of member win.
win_init(env) ==
    IF env = "win_fail"
    THEN R(<<Ev("SDL_CreateWindow", FALSE, 0, WinSize)>>, <<>>,
           "Failed to create window.")
    ELSE R(<<Ev("SDL_CreateWindow", TRUE, 0, WinSize)>>,
           <<"Window created.">>, "")

\* The deleter of member win (called on a non-null pointer only).
win_deleter ==
    R(<<Ev("SDL_DestroyWindow", TRUE, 0, <<>>)>>, <<"Window destroyed.">>, "")

\* The initializer of member ren.  The draw colour of a new renderer is
\* the library's (NoColor: none set by this code).
ren_init(env) ==
    IF env = "ren_fail"
    THEN R(<<Ev("SDL_CreateRenderer", FALSE, 0, NoColor)>>, <<>>,
           "Failed to create renderer.")
    ELSE R(<<Ev("SDL_CreateRenderer", TRUE, 0, NoColor)>>,
           <<"Renderer created.">>, "")

\* The deleter of member ren.
ren_deleter ==
    R(<<Ev("SDL_DestroyRenderer", TRUE, 0, <<>>)>>, <<"Renderer destroyed.">>, "")

\* A deleter that leaves the texture alive.
tex_deleter_none(id) == R(<<>>, <<"Texture destroyed.">>, "")

\* The deleter of a Texture (create_texture's second lambda).
tex_deleter(id) ==
    R(<<Ev("SDL_DestroyTexture", TRUE, id, <<>>)>>, <<"Texture destroyed.">>, "")

\* A constructor that, when the renderer cannot be created, shuts the
\* subsystem down before it destroys the window.
Sdl_ctor_unordered(env) ==
    LET b == Base_ctor(env) IN
    IF b.err # ""
    THEN b @@ [base |-> "none", win |-> "none", ren |-> "none"]
    ELSE LET w == Then(b, win_init(env)) IN
         IF w.err # ""
         THEN R(w.trace \o Base_dtor.trace, w.msgs \o Base_dtor.msgs, w.err)
              @@ [base |-> "destroyed", win |-> "none", ren |-> "none"]
         ELSE LET r == Then(w, ren_init(env)) IN
              IF r.err # ""
              THEN R(r.trace \o Base_dtor.trace \o win_deleter.trace,
                     r.msgs \o Base_dtor.msgs \o win_deleter.msgs, r.err)
                   @@ [base |-> "destroyed", win |-> "destroyed", ren |-> "none"]
              ELSE r @@ [base |-> "alive", win |-> "alive", ren |-> "alive"]

\* Sdl::Sdl(title, w, h): the members are initialized in declaration order
\* base, win, ren (textures_map starts empty); when an initializer throws,
\* the members already constructed are destroyed in reverse order.
Sdl_ctor(env) ==
    LET b == Base_ctor(env) IN
    IF b.err # ""
    THEN b @@ [base |-> "none", win |-> "none", ren |-> "none"]
    ELSE LET w == Then(b, win_init(env)) IN
         IF w.err # ""
         THEN R(w.trace \o Base_dtor.trace, w.msgs \o Base_dtor.msgs, w.err)
              @@ [base |-> "destroyed", win |-> "none", ren |-> "none"]
         ELSE LET r == Then(w, ren_init(env)) IN
              IF r.err # ""
              THEN R(r.trace \o win_deleter.trace \o Base_dtor.trace,
                     r.msgs \o win_deleter.msgs \o Base_dtor.msgs, r.err)
                   @@ [base |-> "destroyed", win |-> "destroyed", ren |-> "none"]
              ELSE r @@ [base |-> "alive", win |-> "alive", ren |-> "alive"]

\* The destruction of textures_map: every Texture's deleter runs, in the
\* order given (the standard does not fix the order of a map's elements'
\* destruction).
RECURSIVE map_dtor(_, _)
map_dtor(map, order) ==
    IF order = <<>> THEN R(<<>>, <<>>, "")
    ELSE Then(tex_deleter(map[Head(order)]), map_dtor(map, Tail(order)))

\* A destructor that destroys the renderer before the textures (ren
\* declared after textures_map).
Sdl_dtor_ren_first(map, order) ==
    Then(Then(Then(ren_deleter, map_dtor(map, order)), win_deleter), Base_dtor)

\* A destructor that destroys the members in declaration order.
Sdl_dtor_declared(map, order) ==
    Then(Then(Then(Base_dtor, win_deleter), ren_deleter), map_dtor(map, order))

\* Sdl::~Sdl() (implicit): members are destroyed in reverse declaration
\* order: textures_map, ren, win, base.
Sdl_dtor(map, order) ==
    Then(Then(Then(map_dtor(map, order), ren_deleter), win_deleter), Base_dtor)

\* The orders in which the elements of a map may be destroyed.
Orders(map) ==
    {o \in [1 .. Cardinality(DOMAIN map) -> DOMAIN map] : Range(o) = DOMAIN map}

(***************************************************************************)
(* Loading.  A load returns R's fields and map (textures_map afterwards),  *)
(* lib (the library afterwards) and ret (the value returned).  The trace   *)
(* of a load also holds the insertion into textures_map ("emplace") and,   *)
(* last, how each call of load_texture(path) ended ("load_texture", with   *)
(* ok = it returned normally).                                             *)
(***************************************************************************)
LoadOutcomes == {"ok", "bmp_fail", "tex_fail"}

TextOutcomes == {"ok", "font_fail", "render_fail", "tex_fail", "size_fail"}

\* What a surface holds: the bitmap of a file, or a text rendered in a style.
BmpSurface(path) == [kind |-> "bmp", src |-> path, style |-> <<>>]

TextSurface(text, col, fontarg) ==
    [kind |-> "text", src |-> text, style |-> <<[col |-> col, font |-> fontarg]>>]

\* std::map::emplace: inserts unless the key is present.
emplace(map, key, tex) ==
    IF key \in DOMAIN map THEN map ELSE (key :> tex) @@ map

Loaded(map, l, r, ret) ==
    r @@ [map |-> map, lib |-> Replay(l, r.trace), ret |-> ret]

\* A surface that is never freed.
sur_deleter_none(surface) == R(<<>>, <<>>, "")

\* The deleter of a Surface.
sur_deleter(surface) ==
    R(<<Ev("SDL_FreeSurface", TRUE, 0, surface)>>, <<>>, "")

\* The deleter of a Font.
font_deleter(fontarg) ==
    R(<<Ev("TTF_CloseFont", TRUE, 0, fontarg)>>, <<>>, "")

\* Sdl::create_texture(const Surface&): returns R's fields and tex, the new
\* texture (0 when it throws).
create_texture(l, surface, ok) ==
    IF ~ok
    THEN R(<<Ev("SDL_CreateTextureFromSurface", FALSE, 0, surface)>>, <<>>,
           "Failed to create texture.") @@ [tex |-> 0]
    ELSE R(<<Ev("SDL_CreateTextureFromSurface", TRUE, NewTexture(l, surface),
                surface)>>,
           <<"Texture created.">>, "") @@ [tex |-> NewTexture(l, surface)]

\* How a call of load_texture(path) ended.
Ended(path, r) ==
    R(r.trace \o <<Ev("load_texture", r.err = "", 0, path)>>, r.msgs, r.err)

\* Sdl::load_texture(const std::string& path), from the construction of sur
\* on (path is not a key of textures_map).
load_new_texture(map, l, path, env) ==
    IF env = "bmp_fail"
    THEN Loaded(map, l,
                Ended(path, R(<<Ev("SDL_LoadBMP", FALSE, 0, path)>>, <<>>,
                              "Failed to load bmp.")), <<>>)
    ELSE
    LET sur == R(<<Ev("SDL_LoadBMP", TRUE, 0, path)>>, <<"bmp loaded:", path>>, "")
        tex == Then(sur, create_texture(l, BmpSurface(path), env # "tex_fail"))
        id == create_texture(l, BmpSurface(path), env # "tex_fail").tex
        insert == R(<<Ev("emplace", TRUE, id, path)>>, <<"New texture loaded.">>, "")
    IN  IF tex.err # ""
        THEN Loaded(map, l,
                    Ended(path, R(tex.trace \o sur_deleter(BmpSurface(path)).trace,
                                  tex.msgs, tex.err)), <<>>)
        ELSE Loaded(emplace(map, path, id), l,
                    Ended(path, Then(Then(tex, insert),
                                     sur_deleter(BmpSurface(path)))), <<>>)

\* load_texture that loads again and replaces the entry of path.
load_texture_replace(map, l, path, env) ==
    load_new_texture(Remove(map, path), l, path, env)

\* load_texture without the look-up of path.
load_texture_reload(map, l, path, env) == load_new_texture(map, l, path, env)

\* Sdl::load_texture(const std::string& path)
load_texture(map, l, path, env) ==
    IF path \in DOMAIN map
    THEN Loaded(map, l,
                Ended(path, R(<<>>, <<"Texture was loaded earlier.">>, "")), <<>>)
    ELSE load_new_texture(map, l, path, env)

\* A batch that goes on after an entry failed and reports the failure last.
RECURSIVE load_textures_continue(_, _, _, _)
load_textures_continue(map, l, paths, env) ==
    IF paths = <<>> THEN Loaded(map, l, R(<<>>, <<>>, ""), <<>>)
    ELSE LET one == load_texture(map, l, Head(paths), Head(env))
             rest == load_textures_continue(one.map, one.lib, Tail(paths), Tail(env))
         IN  [rest EXCEPT !.trace = one.trace \o @, !.msgs = one.msgs \o @,
                          !.err = IF one.err # "" THEN one.err ELSE @]

\* Sdl::load_texture(const std::vector<std::string>& paths); env[i] is the
\* outcome of the library calls made for paths[i].
RECURSIVE load_textures(_, _, _, _)
load_textures(map, l, paths, env) ==
    IF paths = <<>> THEN Loaded(map, l, R(<<>>, <<>>, ""), <<>>)
    ELSE LET one == load_texture(map, l, Head(paths), Head(env)) IN
         IF one.err # "" THEN one
         ELSE LET rest == load_textures(one.map, one.lib, Tail(paths), Tail(env))
              IN  [rest EXCEPT !.trace = one.trace \o @, !.msgs = one.msgs \o @]

\* The number of characters of the strings used.
StrLen(s) ==
    CASE s = "face.bmp" -> 8 [] s = "face2.bmp" -> 9 [] s = "some text" -> 9
      [] OTHER -> 1

\* TTF_SizeText: the pixel size of a text rendered with a font at a size.
TextSize(fontarg, text) ==
    [w |-> StrLen(text) * fontarg.ptsize
            + (IF fontarg.path = "Other.ttf" THEN 1 ELSE 0),
     h |-> fontarg.ptsize]

\* load_text whose font is closed once the texture is made, before the
\* text is measured and inserted.
load_new_text_close_early(map, l, text, col, pos, path_to_font, ptsize, env) ==
    LET fontarg == [path |-> path_to_font, ptsize |-> ptsize]
        surface == TextSurface(text, col, fontarg)
        surarg == [font |-> fontarg, text |-> text, col |-> col]
        sizearg == [font |-> fontarg, text |-> text]
        font == R(<<Ev("TTF_OpenFont", TRUE, 0, fontarg)>>, <<"Font opened.">>, "")
        sur == Then(font, R(<<Ev("TTF_RenderText_Blended", TRUE, 0, surarg)>>,
                            <<"Text surface created.">>, ""))
        tex == Then(sur, create_texture(l, surface, env # "tex_fail"))
        id == create_texture(l, surface, env # "tex_fail").tex
        size == TextSize(fontarg, text)
        rect == [x |-> pos.x, y |-> pos.y, w |-> size.w, h |-> size.h]
        insert == R(<<Ev("TTF_SizeText", TRUE, 0, sizearg),
                      Ev("emplace", TRUE, id, text)>>, <<"Text loaded.">>, "")
    IN
    IF env = "font_fail"
    THEN Loaded(map, l,
                R(<<Ev("TTF_OpenFont", FALSE, 0, fontarg)>>, <<>>,
                  "Faield to load font."), <<>>)
    ELSE IF env = "render_fail"
    THEN Loaded(map, l,
                R(font.trace
                    \o <<Ev("TTF_RenderText_Blended", FALSE, 0, surarg)>>
                    \o font_deleter(fontarg).trace,
                  font.msgs, "Failed to create text surface."), <<>>)
    ELSE IF tex.err # ""
    THEN Loaded(map, l,
                R(tex.trace \o sur_deleter(surface).trace
                    \o font_deleter(fontarg).trace,
                  tex.msgs, tex.err), <<>>)
    ELSE IF env = "size_fail"
    THEN Loaded(map, l,
                R(tex.trace \o <<Ev("TTF_SizeText", FALSE, 0, sizearg)>>
                    \o tex_deleter(id).trace \o sur_deleter(surface).trace
                    \o font_deleter(fontarg).trace,
                  tex.msgs \o tex_deleter(id).msgs,
                  "Failed to set text rect size."), <<>>)
    ELSE Loaded(emplace(map, text, id), l,
                Then(Then(Then(tex, font_deleter(fontarg)), insert),
                     sur_deleter(surface)),
                <<rect>>)

\* Sdl::load_text(text, col, pos, path_to_font, ptsize), from the
\* construction of font on (text is not a key of textures_map).
load_new_text(map, l, text, col, pos, path_to_font, ptsize, env) ==
    LET fontarg == [path |-> path_to_font, ptsize |-> ptsize]
        surface == TextSurface(text, col, fontarg)
        surarg == [font |-> fontarg, text |-> text, col |-> col]
        sizearg == [font |-> fontarg, text |-> text]
        font == R(<<Ev("TTF_OpenFont", TRUE, 0, fontarg)>>, <<"Font opened.">>, "")
        sur == Then(font, R(<<Ev("TTF_RenderText_Blended", TRUE, 0, surarg)>>,
                            <<"Text surface created.">>, ""))
        tex == Then(sur, create_texture(l, surface, env # "tex_fail"))
        id == create_texture(l, surface, env # "tex_fail").tex
        size == TextSize(fontarg, text)
        rect == [x |-> pos.x, y |-> pos.y, w |-> size.w, h |-> size.h]
        insert == R(<<Ev("TTF_SizeText", TRUE, 0, sizearg),
                      Ev("emplace", TRUE, id, text)>>, <<"Text loaded.">>, "")
    IN
    IF env = "font_fail"
    THEN Loaded(map, l,
                R(<<Ev("TTF_OpenFont", FALSE, 0, fontarg)>>, <<>>,
                  "Faield to load font."), <<>>)
    ELSE IF env = "render_fail"
    THEN Loaded(map, l,
                R(font.trace
                    \o <<Ev("TTF_RenderText_Blended", FALSE, 0, surarg)>>
                    \o font_deleter(fontarg).trace,
                  font.msgs, "Failed to create text surface."), <<>>)
    ELSE IF tex.err # ""
    THEN Loaded(map, l,
                R(tex.trace \o sur_deleter(surface).trace
                    \o font_deleter(fontarg).trace,
                  tex.msgs, tex.err), <<>>)
    ELSE IF env = "size_fail"
    THEN Loaded(map, l,
                R(tex.trace \o <<Ev("TTF_SizeText", FALSE, 0, sizearg)>>
                    \o tex_deleter(id).trace \o sur_deleter(surface).trace
                    \o font_deleter(fontarg).trace,
                  tex.msgs \o tex_deleter(id).msgs,
                  "Failed to set text rect size."), <<>>)
    ELSE Loaded(emplace(map, text, id), l,
                Then(Then(Then(tex, insert), sur_deleter(surface)),
                     font_deleter(fontarg)),
                <<rect>>)

\* load_text without the look-up of text.
load_text_again(map, l, text, col, pos, path_to_font, ptsize, env) ==
    load_new_text(map, l, text, col, pos, path_to_font, ptsize, env)

\* load_text that places the rectangle it returns at the origin.
load_text_unplaced(map, l, text, col, pos, path_to_font, ptsize, env) ==
    IF text \in DOMAIN map
    THEN Loaded(map, l, R(<<>>, <<>>, "Text cannot be loaded twice."), <<>>)
    ELSE load_new_text(map, l, text, col, [x |-> 0, y |-> 0], path_to_font,
                       ptsize, env)

\* Sdl::load_text(text, col, pos, path_to_font, ptsize)
load_text(map, l, text, col, pos, path_to_font, ptsize, env) ==
    IF text \in DOMAIN map
    THEN Loaded(map, l, R(<<>>, <<>>, "Text cannot be loaded twice."), <<>>)
    ELSE load_new_text(map, l, text, col, pos, path_to_font, ptsize, env)

(***************************************************************************)
(* Drawing.  A drawing function returns R's fields.                        *)
(***************************************************************************)
\* std::variant<SDL_Color, std::string> col_or_tex
Color(col) == [tag |-> "SDL_Color", col |-> col, key |-> ""]

Tex(key) == [tag |-> "std::string", col |-> NoColor, key |-> key]

\* struct RenderData (the members text and ptsize are never read).  A
\* request with a colour keeps the defaults of srcrect, angle and flip.
RenderData ==
    { [srcrect |-> t.srcrect, dstrect |-> d, col_or_tex |-> Tex(k),
       angle |-> t.angle, flip |-> t.flip] :
        t \in Transforms, d \in Optional(Rects), k \in Strings }
    \cup
    { [srcrect |-> <<>>, dstrect |-> d, col_or_tex |-> Color(c),
       angle |-> 0, flip |-> "SDL_FLIP_NONE"] :
        d \in Optional(Rects), c \in Colors }

\* The requests of the test: data.dstrect is set, data.col_or_tex is a key
\* or SDL_Color{100, 0, 0, 255}, the other members keep their defaults.
TestRequests ==
    {data \in RenderData :
        /\ data.dstrect # <<>> /\ data.srcrect = <<>> /\ data.angle = 0
        /\ data.col_or_tex.tag = "SDL_Color" =>
            data.col_or_tex.col = [r |-> 100, g |-> 0, b |-> 0, a |-> 255]}

\* Sdl::set_draw_color(SDL_Color col)
set_draw_color(col, ok) ==
    R(<<Ev("SDL_SetRenderDrawColor", ok, 0, col)>>, <<>>,
      IF ok THEN "" ELSE "Failed to set draw color.")

\* Sdl::clear(SDL_Color col)
clear(col, env) ==
    LET set == set_draw_color(col, env # "color_fail") IN
    IF set.err # "" THEN set
    ELSE Then(set, R(<<Ev("SDL_RenderClear", env # "clear_fail", 0, <<>>)>>, <<>>,
                     IF env = "clear_fail" THEN "Failed to clear renderer." ELSE ""))

\* A copy that first resets the draw colour, as the flat-colour branch sets
\* it.
draw_copy_tinted(map, data, env) ==
    LET copy(ok) ==
            Ev("SDL_RenderCopyEx", ok, map[data.col_or_tex.key],
               [srcrect |-> data.srcrect, dstrect |-> data.dstrect,
                angle |-> data.angle, flip |-> data.flip])
        set == set_draw_color([r |-> 255, g |-> 0, b |-> 0, a |-> 255], TRUE)
    IN  IF env = "copy_fail"
        THEN Then(set, R(<<copy(FALSE)>>, <<>>, "Failed to render texture."))
        ELSE Then(set, R(<<copy(TRUE)>>, <<"Texture rendered.">>, ""))

\* A copy that ignores the request's rectangles: the whole texture goes to
\* the whole target.
draw_copy_whole(map, data, env) ==
    LET copy(ok) ==
            Ev("SDL_RenderCopyEx", ok, map[data.col_or_tex.key],
               [srcrect |-> <<>>, dstrect |-> <<>>,
                angle |-> data.angle, flip |-> data.flip])
    IN  IF env = "copy_fail"
        THEN R(<<copy(FALSE)>>, <<>>, "Failed to render texture.")
        ELSE R(<<copy(TRUE)>>, <<"Texture rendered.">>, "")

\* Sdl::draw, the branch of a texture key, from SDL_RenderCopyEx on (the
\* key is in textures_map).
draw_copy(map, data, env) ==
    LET copy(ok) ==
            Ev("SDL_RenderCopyEx", ok, map[data.col_or_tex.key],
               [srcrect |-> data.srcrect, dstrect |-> data.dstrect,
                angle |-> data.angle, flip |-> data.flip])
    IN  IF env = "copy_fail"
        THEN R(<<copy(FALSE)>>, <<>>, "Failed to render texture.")
        ELSE R(<<copy(TRUE)>>, <<"Texture rendered.">>, "")

\* A draw that paints a placeholder for a key that is not loaded.
draw_texture_placeholder(map, data, env) ==
    IF data.col_or_tex.key \notin DOMAIN map
    THEN Then(set_draw_color([r |-> 255, g |-> 0, b |-> 0, a |-> 255], TRUE),
              R(<<Ev("SDL_RenderFillRect", TRUE, 0, data.dstrect)>>,
                <<"Rect rendered.">>, ""))
    ELSE draw_copy(map, data, env)

\* Sdl::draw, the branch of a texture key.
draw_texture(map, data, env) ==
    IF data.col_or_tex.key \notin DOMAIN map
    THEN R(<<>>, <<>>, "Failed to find texture.")
    ELSE draw_copy(map, data, env)

\* A fill that sets the draw colour after it has filled.
draw_fill_first(data, env) ==
    LET fill == R(<<Ev("SDL_RenderFillRect", env # "fill_fail", 0, data.dstrect)>>,
                  <<>>, IF env = "fill_fail" THEN "Failed to fill rect." ELSE "")
        set == set_draw_color(data.col_or_tex.col, env # "color_fail")
    IN  IF fill.err # "" THEN fill
        ELSE IF set.err # "" THEN Then(fill, set)
        ELSE Then(Then(fill, set), R(<<>>, <<"Rect rendered.">>, ""))

\* Sdl::draw, the branch of a colour.
draw_fill(data, env) ==
    LET set == set_draw_color(data.col_or_tex.col, env # "color_fail") IN
    IF set.err # "" THEN set
    ELSE IF env = "fill_fail"
    THEN Then(set, R(<<Ev("SDL_RenderFillRect", FALSE, 0, data.dstrect)>>,
                     <<>>, "Failed to fill rect."))
    ELSE Then(set, R(<<Ev("SDL_RenderFillRect", TRUE, 0, data.dstrect)>>,
                     <<"Rect rendered.">>, ""))

\* Sdl::draw(RenderData data)
draw(map, data, env) ==
    IF data.col_or_tex.tag = "std::string"
    THEN draw_texture(map, data, env)
    ELSE draw_fill(data, env)

\* The outcomes the library calls of draw(data) can have.
DrawOutcomes(data) ==
    IF data.col_or_tex.tag = "std::string" THEN {"ok", "copy_fail"}
    ELSE {"ok", "color_fail", "fill_fail"}

\* Sdl::present()
present == R(<<Ev("SDL_RenderPresent", TRUE, 0, <<>>)>>, <<>>, "")

(***************************************************************************)
(* The state machine.                                                      *)
(***************************************************************************)
\* What is recorded of the last member function executed.
Op(name, args, r, ret) ==
    [ op |-> name, args |-> args, pre |-> textures_map, prelib |-> lib,
      before |-> succeeded, trace |-> r.trace, msgs |-> r.msgs, err |-> r.err, ret |-> ret ]

Init ==
    /\ phase = "Uninitialized"
    /\ base = "none" /\ win = "none" /\ ren = "none"
    /\ textures_map = <<>>
    /\ dbg_msg = ""
    /\ lib = LibInit
    /\ succeeded = {}
    /\ last = [ op |-> "", args |-> <<>>, pre |-> <<>>, prelib |-> LibInit,
                before |-> {}, trace |-> <<>>, msgs |-> <<>>, err |-> "", ret |-> <<>> ]

\* Sdl sdl("test", w, h);
Construct ==
    /\ phase = "Uninitialized"
    /\ \E env \in CtorOutcomes :
        LET r == Sdl_ctor(env) IN
        /\ phase' = IF r.err = "" THEN "Initialized" ELSE "ConstructionFailed"
        /\ base' = r.base /\ win' = r.win /\ ren' = r.ren
        /\ lib' = Replay(lib, r.trace)
        /\ dbg_msg' = DBGMSG(dbg_msg, r.msgs)
        /\ last' = Op("Sdl", [env |-> env], r, <<>>)
        /\ UNCHANGED <<textures_map, succeeded>>

\* The Sdl object goes out of scope.
Destroy ==
    /\ phase = "Initialized"
    /\ \E order \in Orders(textures_map) :
        LET r == Sdl_dtor(textures_map, order) IN
        /\ phase' = "TornDown"
        /\ base' = "destroyed" /\ win' = "destroyed" /\ ren' = "destroyed"
        /\ textures_map' = <<>>
        /\ lib' = Replay(lib, r.trace)
        /\ dbg_msg' = DBGMSG(dbg_msg, r.msgs)
        /\ last' = Op("~Sdl", <<>>, r, <<>>)
        /\ UNCHANGED succeeded

\* The effect of a load on the object.
Load(name, args, r) ==
    /\ textures_map' = r.map
    /\ lib' = r.lib
    /\ dbg_msg' = DBGMSG(dbg_msg, r.msgs)
    /\ last' = Op(name, args, r, r.ret)
    /\ succeeded' = succeeded \cup
            {r.trace[i].arg : i \in {j \in Pos(r.trace, "load_texture") : r.trace[j].ok}}
    /\ UNCHANGED <<phase, base, win, ren>>

\* sdl.load_texture(path);
LoadTexture ==
    /\ phase = "Initialized"
    /\ \E path \in Paths, env \in LoadOutcomes :
        Load("load_texture", [path |-> path],
             load_texture(textures_map, lib, path, env))

\* The outcomes of a batch: at most one entry fails (the batch stops there).
BatchOutcomes(n) ==
    {[i \in 1 .. n |-> "ok"]}
    \cup {[i \in 1 .. n |-> IF i = k THEN f ELSE "ok"] :
            k \in 1 .. n, f \in LoadOutcomes \ {"ok"}}

\* sdl.load_texture(paths);
LoadTextures ==
    /\ phase = "Initialized"
    /\ \E paths \in Seqs(Paths, MaxBatch) :
       \E env \in BatchOutcomes(Len(paths)) :
        Load("load_textures", [paths |-> paths],
             load_textures(textures_map, lib, paths, env))

\* sdl.load_text(text, col, pos, path_to_font, ptsize), the last four
\* arguments taken from styles.
LoadTextOf(styles) ==
    /\ phase = "Initialized"
    /\ \E text \in Texts, s \in styles, env \in TextOutcomes :
        Load("load_text", [text |-> text] @@ s,
             load_text(textures_map, lib, text, s.col, s.pos, s.path_to_font,
                       s.ptsize, env))

\* sdl.load_text(text, col, pos, path_to_font, ptsize);
LoadText == LoadTextOf(TextStyles)

\* sdl.load_text(text, {100, 100, 100, 255}, {0, 0}, font, 99);
LoadTextTest == LoadTextOf(TestStyles)

\* The effect of a drawing function on the object.
Render(name, args, r) ==
    /\ lib' = Replay(lib, r.trace)
    /\ dbg_msg' = DBGMSG(dbg_msg, r.msgs)
    /\ last' = Op(name, args, r, <<>>)
    /\ UNCHANGED <<phase, base, win, ren, textures_map, succeeded>>

\* sdl.set_draw_color(col);
SetDrawColor ==
    /\ phase = "Initialized"
    /\ \E col \in Colors, ok \in BOOLEAN :
        Render("set_draw_color", [col |-> col], set_draw_color(col, ok))

\* sdl.clear(col);
Clear ==
    /\ phase = "Initialized"
    /\ \E col \in Colors, env \in {"ok", "color_fail", "clear_fail"} :
        Render("clear", [col |-> col], clear(col, env))

\* sdl.draw(data), data taken from requests.
DrawOf(requests) ==
    /\ phase = "Initialized"
    /\ \E data \in requests :
       \E env \in DrawOutcomes(data) :
        Render("draw", data, draw(textures_map, data, env))

\* sdl.draw(data);
Draw == DrawOf(RenderData)

\* data.dstrect = SDL_Rect{...}; data.col_or_tex = ...; sdl.draw(data);
DrawTest == DrawOf(TestRequests)

\* SDL_Rect text_rect = sdl.load_text(text, ...); data.col_or_tex = text;
\* data.dstrect = text_rect; sdl.draw(data);
DrawText ==
    /\ phase = "Initialized"
    /\ last.op = "load_text" /\ last.ret # <<>>
    /\ \E env \in {"ok", "copy_fail"} :
        LET data == [srcrect |-> <<>>, dstrect |-> last.ret,
                     col_or_tex |-> Tex(last.args.text),
                     angle |-> 0, flip |-> "SDL_FLIP_NONE"]
        IN  Render("draw", data, draw(textures_map, data, env))

\* sdl.present();
Present ==
    /\ phase = "Initialized"
    /\ Render("present", <<>>, present)

\* An object used for loading.
NextLoad ==
    \/ Construct
    \/ Destroy
    \/ LoadTexture
    \/ LoadTextures
    \/ LoadText

SpecLoad == Init /\ [][NextLoad]_vars

\* An object used for drawing bitmaps and colours.
NextDraw ==
    \/ Construct
    \/ Destroy
    \/ LoadTexture
    \/ SetDrawColor
    \/ Clear
    \/ Draw
    \/ Present

SpecDraw == Init /\ [][NextDraw]_vars

\* An object used for texts: a text is loaded and drawn into the rectangle
\* load_text returned.
NextText ==
    \/ Construct
    \/ Destroy
    \/ LoadTexture
    \/ LoadText
    \/ DrawText

SpecText == Init /\ [][NextText]_vars

\* An object used as by the test, with the arguments of the test.
NextTest ==
    \/ Construct
    \/ LoadTexture
    \/ LoadTextures
    \/ LoadTextTest
    \/ DrawTest

SpecTest == Init /\ [][NextTest]_vars

Next == NextLoad \/ NextDraw \/ NextText \/ NextTest

Spec == Init /\ [][Next]_vars

(***************************************************************************)
(* Properties.                                                             *)
(***************************************************************************)
IsEnd(e) == e.fn = "load_texture"

\* The calls of load_texture(path) of the last operation, in order.
Ends == SelectSeq(last.trace, IsEnd)

\* The library calls of the last operation that failed.
Failed == {i \in 1 .. Len(last.trace) : ~last.trace[i].ok /\ ~IsEnd(last.trace[i])}

\* What the failure of a library call is reported as.
ErrorOf(fn) ==
    CASE fn = "SDL_LoadBMP" -> "Failed to load bmp."
      [] fn = "SDL_CreateTextureFromSurface" -> "Failed to create texture."
      [] fn = "TTF_OpenFont" -> "Faield to load font."
      [] fn = "TTF_RenderText_Blended" -> "Failed to create text surface."
      [] fn = "TTF_SizeText" -> "Failed to set text rect size."
      [] fn = "SDL_SetRenderDrawColor" -> "Failed to set draw color."
      [] fn = "SDL_RenderClear" -> "Failed to clear renderer."
      [] fn = "SDL_RenderFillRect" -> "Failed to fill rect."
      [] fn = "SDL_RenderCopyEx" -> "Failed to render texture."
      [] OTHER -> "?"

\* C1: once load_texture(P) has returned normally, no later operation
\* decodes P, creates a texture from P or inserts P, every later
\* load_texture(P) returns normally, and a later sdl.load_texture(P) leaves
\* textures_map and the library as they were and reports "Texture was
\* loaded earlier." and not "New texture loaded.".
C1_ImageLoadIdempotent ==
    \A P \in last.before :
        /\ \A i \in 1 .. Len(last.trace) :
            LET e == last.trace[i] IN
            /\ e.fn = "SDL_LoadBMP" => e.arg # P
            /\ e.fn = "SDL_CreateTextureFromSurface" => e.arg.src # P
            /\ e.fn = "emplace" => e.arg # P
            /\ e.fn = "load_texture" /\ e.arg = P => e.ok
        /\ P \in DOMAIN last.pre
        /\ phase = "Initialized" =>
            P \in DOMAIN textures_map /\ textures_map[P] = last.pre[P]
        /\ last.op = "load_texture" /\ last.args.path = P =>
            /\ last.err = ""
            /\ textures_map = last.pre
            /\ lib = last.prelib
            /\ dbg_msg = "Texture was loaded earlier."
            /\ "New texture loaded." \notin Range(last.msgs)

\* A second load_texture of a path loaded from its bitmap.
C1_Witness ==
    /\ last.op = "load_texture"
    /\ last.args.path \in last.before
    /\ last.err = ""
    /\ dbg_msg = "Texture was loaded earlier."
    /\ lib.textures[textures_map[last.args.path]].kind = "bmp"

\* C2: load_text of a text that is a key of textures_map throws "Text cannot
\* be loaded twice." whatever the other arguments, calls nothing (no font,
\* no surface, no texture) and leaves textures_map as it was.
C2_TextLoadNotIdempotent ==
    last.op = "load_text" /\ last.args.text \in DOMAIN last.pre =>
        /\ last.err = "Text cannot be loaded twice."
        /\ last.trace = <<>>
        /\ textures_map = last.pre
        /\ lib = last.prelib

\* A second load_text of a text, in another colour, position, font and size
\* than the first.
C2_Witness ==
    /\ last.op = "load_text"
    /\ last.args.text \in DOMAIN last.pre
    /\ last.err = "Text cannot be loaded twice."
    /\ LET first == lib.textures[textures_map[last.args.text]] IN
        /\ first.kind = "text"
        /\ first.style[1].col # last.args.col
        /\ first.style[1].font.path # last.args.path_to_font
        /\ first.style[1].font.ptsize # last.args.ptsize

\* C3: load_texture(paths) calls load_texture on the entries in list order
\* and stops at the first that throws: the entries before it are keys of
\* textures_map, it is not, the last thing done is its failure (no entry
\* after it is decoded or inserted), its error is the error thrown, and
\* what was inserted before it stays (textures_map is what it was plus the
\* entries before the failing one; no texture is destroyed).
C3_BatchStopsAtFirstFailure ==
    last.op = "load_textures" =>
        LET paths == last.args.paths
            n == Len(Ends)
        IN
        /\ n <= Len(paths)
        /\ \A j \in 1 .. n : Ends[j].arg = paths[j]
        /\ \A j \in 1 .. n - 1 : Ends[j].ok
        /\ \A i \in Pos(last.trace, "SDL_LoadBMP") :
            last.trace[i].arg \in {paths[j] : j \in 1 .. n}
        /\ \A i \in Pos(last.trace, "emplace") :
            last.trace[i].arg \in {paths[j] : j \in 1 .. n}
        /\ last.err = "" => n = Len(paths) /\ Failed = {} /\ (n > 0 => Ends[n].ok)
        /\ last.err # "" =>
            /\ n >= 1
            /\ ~Ends[n].ok
            /\ last.trace[Len(last.trace)] = Ends[n]
            /\ \A j \in 1 .. n - 1 : paths[j] \in DOMAIN textures_map
            /\ paths[n] \notin DOMAIN textures_map
            /\ \E i \in Failed :
                /\ Failed = {i}
                /\ last.err = ErrorOf(last.trace[i].fn)
                /\ last.trace[i].fn = "SDL_LoadBMP" => last.trace[i].arg = paths[n]
                /\ last.trace[i].fn = "SDL_CreateTextureFromSurface" =>
                    last.trace[i].arg.src = paths[n]
            /\ DOMAIN textures_map = DOMAIN last.pre \cup {paths[j] : j \in 1 .. n - 1}
            /\ \A k \in DOMAIN last.pre : textures_map[k] = last.pre[k]
            /\ Pos(last.trace, "SDL_DestroyTexture") = {}

\* A batch of three whose second entry fails: the first was loaded by the
\* batch and stays, the third is not loaded.
C3_Witness ==
    /\ last.op = "load_textures"
    /\ Len(last.args.paths) = 3
    /\ last.err = "Failed to create texture."
    /\ Len(Ends) = 2
    /\ last.args.paths[1] \notin DOMAIN last.pre
    /\ last.args.paths[1] \in DOMAIN textures_map
    /\ last.args.paths[3] \notin DOMAIN textures_map

\* C4: a draw with a texture key that is not a key of textures_map throws
\* "Failed to find texture.", calls nothing (no copy, no fill, no change of
\* draw colour) and leaves the render target, the draw colour and
\* textures_map as they were.
C4_DrawBeforeLoadFails ==
    /\ last.op = "draw"
    /\ last.args.col_or_tex.tag = "std::string"
    /\ last.args.col_or_tex.key \notin DOMAIN last.pre
    => /\ last.err = "Failed to find texture."
       /\ last.trace = <<>>
       /\ lib.target = last.prelib.target
       /\ lib.draw_color = last.prelib.draw_color
       /\ lib = last.prelib
       /\ textures_map = last.pre

\* A draw of a key never loaded, on a target drawn on before, with another
\* key loaded.
C4_Witness ==
    /\ last.op = "draw"
    /\ last.args.col_or_tex.tag = "std::string"
    /\ last.args.col_or_tex.key \notin DOMAIN last.pre
    /\ last.err = "Failed to find texture."
    /\ last.pre # <<>>
    /\ \E p \in Pixels : lib.target[p] # Blank

\* The one position of a call in the last trace (0 when there is none or
\* more than one).
At(fn) ==
    IF Cardinality(Pos(last.trace, fn)) = 1
    THEN CHOOSE i \in Pos(last.trace, fn) : TRUE
    ELSE 0

\* The one position of a message among the last messages (0 as for At).
MsgAt(msg) ==
    LET at == {i \in 1 .. Len(last.msgs) : last.msgs[i] = msg} IN
    IF Cardinality(at) = 1 THEN CHOOSE i \in at : TRUE ELSE 0

\* C5: the destruction of a constructed Sdl object destroys the renderer,
\* then the window, then terminates TTF and SDL2, each exactly once, and
\* reports them in that order.
C5_TeardownOrder ==
    last.op = "~Sdl" =>
        /\ 0 < At("SDL_DestroyRenderer")
        /\ At("SDL_DestroyRenderer") < At("SDL_DestroyWindow")
        /\ At("SDL_DestroyWindow") < At("TTF_Quit")
        /\ At("SDL_DestroyWindow") < At("SDL_Quit")
        /\ 0 < MsgAt("Renderer destroyed.")
        /\ MsgAt("Renderer destroyed.") < MsgAt("Window destroyed.")
        /\ MsgAt("Window destroyed.") < MsgAt("SDL2 and TTF terminated.")
        /\ ~lib.renderer /\ ~lib.window
        /\ lib.sdl_quit = 1 /\ lib.ttf_quit = 1
        /\ ren = "destroyed" /\ win = "destroyed" /\ base = "destroyed"

\* The destruction of an object that has loaded and drawn.
C5_Witness ==
    /\ last.op = "~Sdl"
    /\ last.pre # <<>>
    /\ \E p \in Pixels : lib.target[p] # Blank
    /\ dbg_msg = "SDL2 and TTF terminated."

\* C6: SDL_Quit is never called more often than SDL_Init has succeeded, and
\* once the constructor has thrown or the object is destroyed, every
\* successful SDL_Init is matched by one SDL_Quit.
C6_SubsystemReleasedOnce ==
    /\ lib.sdl_quit <= lib.sdl_init
    /\ phase \in {"ConstructionFailed", "TornDown"} => lib.sdl_quit = lib.sdl_init

\* The surfaces created and the fonts opened by the last operation.
SurfaceMade(e) == e.fn \in {"SDL_LoadBMP", "TTF_RenderText_Blended"} /\ e.ok

SurfaceSrc(e) == IF e.fn = "SDL_LoadBMP" THEN e.arg ELSE e.arg.text

\* C7: a load frees every surface it created and closes every font it
\* opened, each exactly once and after its creation, before it returns or
\* throws; between operations no surface and no font is open.
C7_ScopedRelease ==
    /\ lib.surfaces = 0
    /\ lib.fonts = 0
    /\ last.op \in {"load_texture", "load_textures", "load_text"} =>
        LET tr == last.trace IN
        /\ \A i \in 1 .. Len(tr) :
            /\ SurfaceMade(tr[i]) =>
                /\ \E j \in i + 1 .. Len(tr) :
                    tr[j].fn = "SDL_FreeSurface" /\ tr[j].arg.src = SurfaceSrc(tr[i])
                /\ Cardinality({j \in Pos(tr, "SDL_FreeSurface") :
                                  tr[j].arg.src = SurfaceSrc(tr[i])}) = 1
            /\ tr[i].fn = "TTF_OpenFont" /\ tr[i].ok =>
                /\ \E j \in i + 1 .. Len(tr) :
                    tr[j].fn = "TTF_CloseFont" /\ tr[j].arg = tr[i].arg
                /\ Cardinality(Pos(tr, "TTF_CloseFont")) = 1
        /\ Cardinality(Pos(tr, "SDL_FreeSurface"))
            = Cardinality({i \in 1 .. Len(tr) : SurfaceMade(tr[i])})
        /\ Cardinality(Pos(tr, "TTF_CloseFont"))
            = Cardinality({i \in Pos(tr, "TTF_OpenFont") : tr[i].ok})

\* A load_text that throws with its font, surface and texture made.
C7_Witness ==
    /\ last.op = "load_text"
    /\ last.err = "Failed to set text rect size."
    /\ Pos(last.trace, "TTF_CloseFont") # {}
    /\ Pos(last.trace, "SDL_FreeSurface") # {}

\* What C8 says of a state.
C8_Created ==
    /\ phase = "Initialized" =>
        /\ base = "alive" /\ win = "alive" /\ ren = "alive"
        /\ lib.window /\ lib.renderer
        /\ lib.sdl_init = 1 /\ lib.ttf_init = 1
        /\ lib.sdl_quit = 0 /\ lib.ttf_quit = 0
    /\ last.op \notin {"", "Sdl", "~Sdl"} => phase = "Initialized"
    /\ last.op = "Sdl" =>
        LET made(fn) == At(fn) > 0 /\ last.trace[At(fn)].ok IN
        /\ phase = (IF last.err = "" THEN "Initialized" ELSE "ConstructionFailed")
        \* created in the order subsystem, window, renderer
        /\ At("SDL_Init") = 1
        /\ Pos(last.trace, "TTF_Init") # {} => made("SDL_Init") /\ At("TTF_Init") = 2
        /\ Pos(last.trace, "SDL_CreateWindow") # {} =>
            made("TTF_Init") /\ At("SDL_CreateWindow") = 3
        /\ Pos(last.trace, "SDL_CreateRenderer") # {} =>
            made("SDL_CreateWindow") /\ At("SDL_CreateRenderer") = 4
        /\ last.err = "" =>
            /\ made("SDL_CreateRenderer")
            /\ Len(last.trace) = 4
        \* destroyed in reverse order, and only what was created
        /\ last.err # "" =>
            /\ Pos(last.trace, "SDL_DestroyRenderer") = {}
            /\ "Renderer destroyed." \notin Range(last.msgs)
            /\ IF made("SDL_CreateWindow")
               THEN /\ At("SDL_DestroyWindow") > At("SDL_CreateRenderer")
                    /\ At("SDL_DestroyWindow") < At("TTF_Quit")
                    /\ 0 < MsgAt("Window destroyed.")
                    /\ MsgAt("Window destroyed.") < MsgAt("SDL2 and TTF terminated.")
               ELSE /\ Pos(last.trace, "SDL_DestroyWindow") = {}
                    /\ "Window destroyed." \notin Range(last.msgs)
            /\ IF "SDL2 and TTF initialized." \in Range(last.msgs)
               THEN /\ At("TTF_Quit") > At("SDL_CreateWindow")
                    /\ At("SDL_Quit") > At("TTF_Quit")
                    /\ MsgAt("SDL2 and TTF terminated.") > 0
                    /\ base = "destroyed"
               ELSE /\ Pos(last.trace, "TTF_Quit") = {}
                    /\ Pos(last.trace, "SDL_Quit") = {}
                    /\ "SDL2 and TTF terminated." \notin Range(last.msgs)
                    /\ base = "none"
            /\ ~lib.window /\ ~lib.renderer

\* What C8 says of a step.
C8_NoWayBack ==
    /\ phase \in {"TornDown", "ConstructionFailed"} => phase' = phase
    /\ phase' = "Uninitialized" => phase = "Uninitialized"
    /\ phase' = "Initialized" => phase \in {"Uninitialized", "Initialized"}

\* C8: the object is Initialized (its member functions run) only after the
\* subsystem, the window and the renderer were created, in that order; when
\* a step of the construction fails the object is never Initialized, what
\* was created is destroyed in reverse order of creation and nothing that
\* was not created is destroyed; a destroyed object and one whose
\* construction failed stay so, and no object becomes Uninitialized again.
C8_LifeCycle == [] C8_Created /\ [][C8_NoWayBack]_vars

\* A construction that fails at the renderer, with the window destroyed.
C8_Witness ==
    /\ last.op = "Sdl"
    /\ last.err = "Failed to create renderer."
    /\ phase = "ConstructionFailed"
    /\ win = "destroyed" /\ base = "destroyed" /\ ren = "none"

\* The textures that textures_map held before the last operation.
Held == {last.pre[k] : k \in DOMAIN last.pre}

\* C9: while the object is Initialized, every key of textures_map stays a
\* key and keeps the texture it has (so the one of its first load), the
\* textures of textures_map are live, and no operation destroys one.
C9_LoadOnceKeepForever ==
    phase = "Initialized" =>
        /\ \A k \in DOMAIN last.pre :
            /\ k \in DOMAIN textures_map
            /\ textures_map[k] = last.pre[k]
            /\ textures_map[k] \in DOMAIN lib.textures
            /\ lib.textures[textures_map[k]] = last.prelib.textures[last.pre[k]]
        /\ \A k \in DOMAIN textures_map : textures_map[k] \in DOMAIN lib.textures
        /\ \A i \in Pos(last.trace, "SDL_DestroyTexture") : last.trace[i].tex \notin Held

\* A load into a map that holds a key, and a load of a key the map holds.
C9_Witness ==
    /\ phase = "Initialized"
    /\ last.op = "load_textures"
    /\ last.pre # <<>>
    /\ DOMAIN textures_map # DOMAIN last.pre
    /\ \E i \in 1 .. Len(last.args.paths) : last.args.paths[i] \in DOMAIN last.pre

\* What C10 says apart from the error reported: the draw colour is set to
\* the request's colour first, then the destination is filled, whatever
\* textures_map holds; a draw that returns has set the draw colour and
\* painted the destination (the whole target for no rectangle).
C10_SetThenFill ==
    LET col == last.args.col_or_tex.col
        tr == last.trace
    IN
    /\ Len(tr) \in {1, 2}
    /\ tr[1].fn = "SDL_SetRenderDrawColor" /\ tr[1].arg = col
    /\ Len(tr) = 2 <=> tr[1].ok
    /\ Len(tr) = 2 => tr[2].fn = "SDL_RenderFillRect" /\ tr[2].arg = last.args.dstrect
    /\ R(tr, last.msgs, last.err)
        \in {draw(<<>>, last.args, env) : env \in DrawOutcomes(last.args)}
    /\ textures_map = last.pre
    /\ last.err = "" <=> Failed = {}
    /\ last.err = "" =>
        /\ lib.draw_color = col
        /\ \A p \in Pixels :
            lib.target[p] = IF p \in Covered(last.args.dstrect) THEN Painted(col)
                            ELSE last.prelib.target[p]

IsFlatColorDraw == last.op = "draw" /\ last.args.col_or_tex.tag = "SDL_Color"

\* C10 as claimed: a flat-colour draw sets the draw colour, then fills, and
\* every failure of it is reported as "Failed to fill rect.".
C10_FlatColorDraw_AsClaimed ==
    IsFlatColorDraw =>
        /\ C10_SetThenFill
        /\ last.err # "" => last.err = "Failed to fill rect."

\* C10 as amended: a flat-colour draw sets the draw colour, then fills; a
\* failure of the fill is reported as "Failed to fill rect.", a failure to
\* set the draw colour as "Failed to set draw color.", and then nothing is
\* filled.
C10_FlatColorDraw ==
    IsFlatColorDraw =>
        /\ C10_SetThenFill
        /\ last.err # "" =>
            \/ /\ Len(last.trace) = 2 /\ ~last.trace[2].ok
               /\ last.err = "Failed to fill rect."
            \/ /\ Len(last.trace) = 1 /\ ~last.trace[1].ok
               /\ last.err = "Failed to set draw color."
               /\ lib.target = last.prelib.target

\* A flat-colour draw with no rectangle that changes the draw colour.
C10_Witness ==
    /\ IsFlatColorDraw
    /\ last.err = ""
    /\ last.args.dstrect = <<>>
    /\ last.prelib.draw_color \in Colors
    /\ last.prelib.draw_color # lib.draw_color
    /\ last.pre # <<>>

\* The rectangles of the request of the last draw are the ones given to the
\* renderer: NULL for std::nullopt, the rectangle otherwise.
C11_PassedUnchanged ==
    /\ \A i \in Pos(last.trace, "SDL_RenderFillRect") :
        last.trace[i].arg = last.args.dstrect
    /\ \A i \in Pos(last.trace, "SDL_RenderCopyEx") :
        /\ last.trace[i].arg.srcrect = last.args.srcrect
        /\ last.trace[i].arg.dstrect = last.args.dstrect
    /\ last.err = "" =>
        Cardinality(Pos(last.trace, "SDL_RenderFillRect")
                    \cup Pos(last.trace, "SDL_RenderCopyEx")) = 1

\* The last draw has painted the pixels of area, and no other, with its
\* colour or its texture.
C11_Paints(area) ==
    LET new == IF last.args.col_or_tex.tag = "SDL_Color"
               THEN Painted(last.args.col_or_tex.col)
               ELSE Copied(last.pre[last.args.col_or_tex.key])
    IN  \A p \in Pixels :
            lib.target[p] = IF p \in area THEN new ELSE last.prelib.target[p]

C12_LastMessage ==
    /\ last.err = ""
    /\ last.op \in {"Sdl", "load_texture", "load_textures", "load_text", "draw"}
    /\ last.op = "load_textures" => last.args.paths # <<>>
    =>
        /\ last.msgs # <<>>
        /\ dbg_msg = last.msgs[Len(last.msgs)]
        /\ last.op = "Sdl" => dbg_msg = "Renderer created."
        /\ last.op = "load_texture" =>
            dbg_msg = IF last.args.path \in DOMAIN last.pre
                      THEN "Texture was loaded earlier."
                      ELSE "New texture loaded."
        /\ last.op = "load_textures" =>
            LET paths == last.args.paths
                n == Len(paths)
            IN  dbg_msg = IF \/ paths[n] \in DOMAIN last.pre
                             \/ \E j \in 1 .. n - 1 : paths[j] = paths[n]
                          THEN "Texture was loaded earlier."
                          ELSE "New texture loaded."
        /\ last.op = "load_text" => dbg_msg = "Text loaded."
        /\ last.op = "draw" =>
            dbg_msg = IF last.args.col_or_tex.tag = "std::string"
                      THEN "Texture rendered."
                      ELSE "Rect rendered."

\* A batch that loads a new bitmap last, after an entry loaded earlier, on
\* an object that has loaded a text and drawn.
C12_Witness ==
    /\ last.op = "load_textures"
    /\ last.err = ""
    /\ Len(last.args.paths) = 2
    /\ last.args.paths[1] \in DOMAIN last.pre
    /\ last.args.paths[2] \notin DOMAIN last.pre
    /\ dbg_msg = "New texture loaded."
    /\ \E k \in DOMAIN last.pre : lib.textures[textures_map[k]].kind = "text"
    /\ \E p \in Pixels : lib.target[p].tag = "texture"

\* What C13 says of a load_text that returned.
C13_Loaded ==
    last.op = "load_text" /\ last.err = "" =>
        LET text == last.args.text
            fontarg == [path |-> last.args.path_to_font, ptsize |-> last.args.ptsize]
        IN
        /\ text \notin DOMAIN last.pre
        /\ DOMAIN textures_map = DOMAIN last.pre \cup {text}
        /\ \A k \in DOMAIN last.pre : textures_map[k] = last.pre[k]
        /\ \E i \in Pos(last.trace, "emplace") :
            /\ Pos(last.trace, "emplace") = {i}
            /\ last.trace[i].arg = text
            /\ last.trace[i].tex = textures_map[text]
        /\ textures_map[text] \in DOMAIN lib.textures
        /\ textures_map[text] \notin {last.pre[k] : k \in DOMAIN last.pre}
        /\ lib.textures[textures_map[text]] = TextSurface(text, last.args.col, fontarg)
        /\ \E i \in Pos(last.trace, "TTF_SizeText") :
            /\ last.trace[i].ok
            /\ last.trace[i].arg = [font |-> fontarg, text |-> text]
        /\ last.ret = <<[x |-> last.args.pos.x, y |-> last.args.pos.y,
                         w |-> TextSize(fontarg, text).w,
                         h |-> TextSize(fontarg, text).h]>>

\* What C13 says of the draw that follows: it finds the texture of the text
\* and copies it to the rectangle returned; it returns normally unless
\* SDL_RenderCopyEx itself fails.
C13_ThenDrawn ==
    /\ last.op = "load_text" /\ last.err = ""
    /\ last'.op = "draw"
    /\ last'.args.col_or_tex = Tex(last.args.text)
    /\ last'.args.dstrect = last.ret
    => /\ Len(last'.trace) = 1
       /\ last'.trace[1].fn = "SDL_RenderCopyEx"
       /\ last'.trace[1].tex = textures_map[last.args.text]
       /\ last'.trace[1].arg.dstrect = last.ret
       /\ last'.err = (IF last'.trace[1].ok THEN "" ELSE "Failed to render texture.")
       /\ last'.trace[1].ok =>
            /\ dbg_msg' = "Texture rendered."
            /\ \A p \in Covered(last.ret) :
                lib'.target[p] = Copied(textures_map[last.args.text])
       /\ textures_map' = textures_map

C14_Steps(closeAt) ==
    LET steps == <<"TTF_OpenFont", "TTF_RenderText_Blended",
                   "SDL_CreateTextureFromSurface", "TTF_SizeText", "emplace",
                   "SDL_FreeSurface">>
        Insert(seq, at, x) == SubSeq(seq, 1, at - 1) \o <<x>> \o SubSeq(seq, at, Len(seq))
    IN  Insert(steps, closeAt, "TTF_CloseFont")

\* The last operation made the calls of order, each once and in this order.
C14_InOrder(order) ==
    /\ Len(last.trace) = Len(order)
    /\ \A i \in 1 .. Len(order) : last.trace[i].fn = order[i] /\ last.trace[i].ok

C14_IsNamed(e) == e.fn # "SDL_FreeSurface"

\* The steps the claim names, in the order the last operation made them.
C14_Named == SelectSeq(last.trace, C14_IsNamed)

\* C14 as claimed: a load_text of a new text that returns has opened the
\* font, rendered the text, created the texture, closed the font, measured
\* the text and inserted the entry, in this order.
C14_StepOrder_AsClaimed ==
    last.op = "load_text" /\ last.err = "" =>
        /\ Len(C14_Named) = 6
        /\ \A i \in 1 .. 6 :
            C14_Named[i].fn = <<"TTF_OpenFont", "TTF_RenderText_Blended",
                                "SDL_CreateTextureFromSurface", "TTF_CloseFont",
                                "TTF_SizeText", "emplace">>[i]

\* C14 as amended: a load_text of a new text that returns has opened the
\* font, rendered the text, created the texture, measured the text (with
\* the font, still open) and inserted the entry, in this order; the surface
\* is freed and then the font is closed when load_text returns, after the
\* measurement and the insertion.  A load_text that throws has made a
\* prefix of the first four calls, the last of them the one that failed,
\* and closes the font last if it opened it.
C14_StepOrder ==
    last.op = "load_text" /\ last.args.text \notin DOMAIN last.pre =>
        /\ last.err = "" => C14_InOrder(C14_Steps(7))
        /\ last.err # "" =>
            \E n \in 1 .. 4 :
                /\ Len(last.trace) >= n
                /\ \A i \in 1 .. n :
                    /\ last.trace[i].fn = C14_Steps(7)[i]
                    /\ last.trace[i].ok <=> i < n
                /\ \A i \in n + 1 .. Len(last.trace) :
                    last.trace[i].fn \in {"SDL_DestroyTexture", "SDL_FreeSurface",
                                          "TTF_CloseFont"}
                /\ n > 1 => last.trace[Len(last.trace)].fn = "TTF_CloseFont"
                /\ Pos(last.trace, "emplace") = {}

\* A load_text of a new text that returns, on an object that holds a
\* texture.
C14_Witness ==
    /\ last.op = "load_text"
    /\ last.err = ""
    /\ last.pre # <<>>
    /\ Len(last.trace) = 7
    /\ last.trace[4].fn = "TTF_SizeText"
    /\ last.trace[7].fn = "TTF_CloseFont"

\* C15: once load_texture(P) has returned normally, the entry of P in
\* textures_map is a live texture created from the bitmap of the file P,
\* whatever loads of bitmaps and texts came before.
C15_EntriesMatchKind ==
    phase = "Initialized" =>
        \A P \in succeeded :
            /\ P \in DOMAIN textures_map
            /\ textures_map[P] \in DOMAIN lib.textures
            /\ lib.textures[textures_map[P]] = BmpSurface(P)

\* The key of a load_texture(path) or load_text(text, ...).
C16_Key(op) == IF op.op = "load_texture" THEN op.args.path ELSE op.args.text

\* The last operation is a single load that failed at one of its steps.
C16_LoadFailed(op) ==
    /\ op.op \in {"load_texture", "load_text"}
    /\ op.err \notin {"", "Text cannot be loaded twice."}

\* What C16 says of a state.
C16_NothingDurable ==
    \* every texture created and not destroyed is stored in textures_map
    /\ DOMAIN lib.textures = {textures_map[k] : k \in DOMAIN textures_map}
    /\ \A j, k \in DOMAIN textures_map : textures_map[j] = textures_map[k] => j = k
    /\ phase # "Initialized" => lib.textures = <<>>
    \* a texture created by an operation is inserted or destroyed by it
    /\ \A i \in Pos(last.trace, "SDL_CreateTextureFromSurface") :
        last.trace[i].ok =>
            \E j \in i + 1 .. Len(last.trace) :
                /\ last.trace[j].fn \in {"emplace", "SDL_DestroyTexture"}
                /\ last.trace[j].tex = last.trace[i].tex
    /\ C16_LoadFailed(last) =>
        /\ C16_Key(last) \notin DOMAIN last.pre
        /\ textures_map = last.pre
        /\ C16_Key(last) \notin DOMAIN textures_map
        /\ Pos(last.trace, "emplace") = {}
        /\ lib = last.prelib
        /\ \E i \in Failed :
            /\ Failed = {i}
            /\ last.err = ErrorOf(last.trace[i].fn)
            /\ \A j \in i + 1 .. Len(last.trace) :
                last.trace[j].fn \in {"SDL_DestroyTexture", "SDL_FreeSurface",
                                      "TTF_CloseFont", "load_texture"}
        /\ \A i \in Pos(last.trace, "SDL_CreateTextureFromSurface") :
            last.trace[i].ok =>
                \E j \in i + 1 .. Len(last.trace) :
                    /\ last.trace[j].fn = "SDL_DestroyTexture"
                    /\ last.trace[j].tex = last.trace[i].tex
    /\ last.op = "load_textures" /\ last.err # "" =>
        Ends[Len(Ends)].arg \notin DOMAIN textures_map

\* What C16 says of a step: a load of the key of a load that has just
\* failed is a first load (it decodes the file or opens the font, is
\* neither "loaded earlier" nor a duplicate, and inserts the key when its
\* library calls succeed).
C16_Retry ==
    /\ C16_LoadFailed(last)
    /\ last'.op \in {"load_texture", "load_text"}
    /\ C16_Key(last') = C16_Key(last)
    => /\ last'.trace # <<>>
       /\ last'.trace[1].fn =
            (IF last'.op = "load_texture" THEN "SDL_LoadBMP" ELSE "TTF_OpenFont")
       /\ last'.err # "Text cannot be loaded twice."
       /\ "Texture was loaded earlier." \notin Range(last'.msgs)
       /\ (\A i \in 1 .. Len(last'.trace) : last'.trace[i].ok) =>
            /\ last'.err = ""
            /\ C16_Key(last) \in DOMAIN textures_map'
            /\ \E i \in Pos(last'.trace, "emplace") :
                last'.trace[i].arg = C16_Key(last)

\* C16: a load_texture or load_text that fails at a step leaves
\* textures_map and the library as they were (the key is not inserted, a
\* texture it created is destroyed), a load of the same key after it is a
\* first load, and between operations every live texture is stored in
\* textures_map.
C16_FailedLoadChangesNothing == [] C16_NothingDurable /\ [][C16_Retry]_vars

\* A load_text that threw after its texture was created, on an object that
\* holds a texture: the texture is destroyed and the map is as before.
C16_Witness ==
    /\ last.op = "load_text"
    /\ last.err = "Failed to set text rect size."
    /\ last.pre # <<>>
    /\ textures_map = last.pre
    /\ \E i \in Pos(last.trace, "SDL_CreateTextureFromSurface") :
        /\ last.trace[i].ok
        /\ last.trace[i].tex \notin DOMAIN lib.textures

\* C17: the destruction of the object destroys every texture of
\* textures_map exactly once, and nothing else as a texture, before it
\* destroys the renderer (so before the window and before TTF_Quit and
\* SDL_Quit); at no point of any operation is a texture alive without the
\* renderer.
C17_TexturesBeforeRenderer ==
    /\ lib.textures # <<>> => lib.renderer
    /\ \A n \in 0 .. Len(last.trace) :
        LET l == Replay(last.prelib, SubSeq(last.trace, 1, n)) IN
        l.textures # <<>> => l.renderer
    /\ last.op = "~Sdl" =>
        /\ \A k \in DOMAIN last.pre :
            \E i \in Pos(last.trace, "SDL_DestroyTexture") :
                /\ last.trace[i].tex = last.pre[k]
                /\ \A j \in Pos(last.trace, "SDL_DestroyTexture") :
                    last.trace[j].tex = last.pre[k] => j = i
                /\ i < At("SDL_DestroyRenderer")
                /\ i < At("SDL_DestroyWindow")
                /\ i < At("TTF_Quit")
                /\ i < At("SDL_Quit")
        /\ \A i \in Pos(last.trace, "SDL_DestroyTexture") : last.trace[i].tex \in Held
        /\ Cardinality(Pos(last.trace, "SDL_DestroyTexture"))
            = Cardinality(DOMAIN last.pre)
        /\ At("SDL_DestroyRenderer") > 0
        /\ lib.textures = <<>>
        /\ textures_map = <<>>

\* The destruction of an object that holds the texture of a bitmap and the
\* texture of a text.
C17_Witness ==
    /\ last.op = "~Sdl"
    /\ \E j, k \in DOMAIN last.pre :
        /\ last.prelib.textures[last.pre[j]].kind = "bmp"
        /\ last.prelib.textures[last.pre[k]].kind = "text"
    /\ lib.textures = <<>>
    /\ ~lib.renderer

\* C18: draw (with a colour or a key, returning or throwing),
\* set_draw_color, clear and present leave textures_map and the textures
\* as they were (they create, insert and destroy none); a draw with a key
\* does not set the draw colour; and while the object lives, an operation
\* that changed textures_map is a load_texture or a load_text.
C18_DrawingLeavesCache ==
    /\ last.op \in {"draw", "set_draw_color", "clear", "present"} =>
        /\ textures_map = last.pre
        /\ lib.textures = last.prelib.textures
        /\ \A i \in 1 .. Len(last.trace) :
            last.trace[i].fn \notin {"emplace", "SDL_CreateTextureFromSurface",
                                     "SDL_DestroyTexture", "SDL_LoadBMP"}
    /\ last.op = "draw" /\ last.args.col_or_tex.tag = "std::string" =>
        /\ lib.draw_color = last.prelib.draw_color
        /\ Pos(last.trace, "SDL_SetRenderDrawColor") = {}
    /\ phase = "Initialized" /\ textures_map # last.pre =>
        last.op \in {"load_texture", "load_textures", "load_text"}

\* A texture drawn after the draw colour was set: the colour stays, the
\* target changes.
C18_Witness ==
    /\ last.op = "draw"
    /\ last.err = ""
    /\ last.args.col_or_tex.tag = "std::string"
    /\ last.prelib.draw_color \in Colors
    /\ lib.draw_color = last.prelib.draw_color
    /\ lib.target # last.prelib.target
    /\ Cardinality(DOMAIN textures_map) = 2

====
